---------------------------- MODULE Spec2Model ----------------------------
(***************************************************************************)
(* Configuration-as-code POC: canonical hasher, path flattener, change     *)
(* detector, validation engine, the in-memory config store of the mock     *)
(* API server and the CLI apply command.                                   *)
(*                                                                         *)
(* A JSON value is a record [t, s, kv]:                                    *)
(*   t  in {"str","bool","num","null","obj","arr"}                        *)
(*   s  the text of a scalar ("" for obj/arr)                              *)
(*   kv the members in insertion order, each [k |-> key, v |-> value]      *)
(*      (k = "" for the elements of an array; <<>> for a scalar)           *)
(* Objects keep their key order, as JavaScript objects do.                 *)
(***************************************************************************)
EXTENDS Integers, Sequences, FiniteSets, TLC

(***************************************************************************)
(* Bounds of the model.                                                    *)
(***************************************************************************)
\* most members of a mapping in the documents drawn for the hasher and the
\* change detector
MaxKeys == 2

\* the longest list of roles of arbitrary shape a validated document carries
MaxShapeRoles == 2

\* the longest list of well-formed roles a validated document carries
MaxRoles == 11

\* most commands (CLI applies, direct PUTs and GETs) started in a run
MaxCommands == 2

(***************************************************************************)
(* JSON values.                                                            *)
(***************************************************************************)
Str(s) == [t |-> "str", s |-> s, kv |-> <<>>]

Bool(b) == [t |-> "bool", s |-> IF b THEN "true" ELSE "false", kv |-> <<>>]

Member(k, v) == [k |-> k, v |-> v]

Obj(members) == [t |-> "obj", s |-> "", kv |-> members]

Arr(items) == [t |-> "arr", s |-> "", kv |-> [i \in 1..Len(items) |-> Member("", items[i])]]

\* what obj[key] yields for a key the object does not have
Undefined == [t |-> "undefined", s |-> "", kv |-> <<>>]

Range(seq) == {seq[i] : i \in 1..Len(seq)}

\* Object.keys(o): the own keys in insertion order
ObjectKeys(o) == [i \in 1..Len(o.kv) |-> o.kv[i].k]

HasKey(o, key) == o.t = "obj" /\ \E i \in 1..Len(o.kv) : o.kv[i].k = key

\* o[key] (o?.[key] when o is not an object)
Get(o, key) ==
  IF HasKey(o, key)
    THEN o.kv[CHOOSE i \in 1..Len(o.kv) : o.kv[i].k = key].v
    ELSE Undefined

(***************************************************************************)
(* Array.prototype.sort() on key names: UTF-16 code unit order.  KeyOrder  *)
(* lists every key name of the model in that order ('$' 0x24 < '_' 0x5F <  *)
(* 'a'..'z'; a proper prefix sorts first).                                 *)
(***************************************************************************)
KeyOrder ==
  << "$schema", "_metadata", "authentication", "enabled", "instanceId", "key",
     "mode", "name", "organizations", "organizations.enabled", "permissions",
     "providers", "redirects", "roles", "signInUrl", "signUp", "version" >>

\* SortKeys with a fault: the keys left in insertion order
SortKeysUnsorted(keys) == keys

SortKeys(keys) == SelectSeq(KeyOrder, LAMBDA k : k \in Range(keys))

(***************************************************************************)
(* JSON.stringify(value, replacer).  With an array replacer (useList) the  *)
(* array is the PropertyList of the serialization: EVERY object, nested    *)
(* ones and those inside arrays included, emits exactly the listed keys    *)
(* it owns, in the order of the list.  Without one an object emits its     *)
(* own keys in insertion order.                                            *)
(***************************************************************************)
RECURSIVE Join(_, _)
Join(strs, sep) ==
  IF Len(strs) = 0 THEN ""
  ELSE IF Len(strs) = 1 THEN strs[1]
  ELSE strs[1] \o sep \o Join(Tail(strs), sep)

Quote(s) == "\"" \o s \o "\""

RECURSIVE JSONstringify(_, _, _)
JSONstringify(value, useList, propertyList) ==
  CASE value.t = "str" -> Quote(value.s)
    [] value.t \in {"bool", "num", "null"} -> value.s
    [] value.t = "arr" ->
         "[" \o Join([i \in 1..Len(value.kv) |->
                        JSONstringify(value.kv[i].v, useList, propertyList)], ",")
             \o "]"
    [] value.t = "obj" ->
         LET K == IF useList
                    THEN SelectSeq(propertyList, LAMBDA p : HasKey(value, p))
                    ELSE ObjectKeys(value)
         IN "{" \o Join([i \in 1..Len(K) |->
                           Quote(K[i]) \o ":"
                             \o JSONstringify(Get(value, K[i]), useList, propertyList)], ",")
                \o "}"

(***************************************************************************)
(* cli/utils/hash.ts                                                       *)
(***************************************************************************)
\* createHash('sha256').update(canonical).digest('hex'): the digest is
\* modelled as injective, a canonical string standing for its own digest
Sha256(canonical) == canonical

\* StripMetadata with a fault: the metadata is hashed with the rest
StripMetadataKept(config) == config

\* const { _metadata, ...hashableConfig } = config
StripMetadata(config) == Obj(SelectSeq(config.kv, LAMBDA m : m.k # "_metadata"))

\* Canonical with a fault: the sorted key list stabilises the top level only
\* and every nested object is written in its own key order
CanonicalTopLevelOnly(hashableConfig) ==
  LET K == SortKeys(ObjectKeys(hashableConfig))
  IN "{" \o Join([i \in 1..Len(K) |->
                    Quote(K[i]) \o ":"
                      \o JSONstringify(Get(hashableConfig, K[i]), FALSE, <<>>)], ",")
         \o "}"

\* JSON.stringify(hashableConfig, Object.keys(hashableConfig).sort())
Canonical(hashableConfig) ==
  JSONstringify(hashableConfig, TRUE, SortKeys(ObjectKeys(hashableConfig)))

generateConfigHash(config) ==
  "sha256:" \o Sha256(Canonical(StripMetadata(config)))

compareHashes(hash1, hash2) == hash1 = hash2

(***************************************************************************)
(* server/index.ts: the change detector.                                   *)
(* A Map<string, any> is the sequence of its entries [k |-> path,          *)
(* v |-> value] in insertion order, one entry per key.                     *)
(***************************************************************************)
MapHas(map, key) == \E i \in 1..Len(map) : map[i].k = key

MapGet(map, key) == map[CHOOSE i \in 1..Len(map) : map[i].k = key].v

\* map.set(key, value): a present key keeps its place and takes the value
MapSet(map, key, value) ==
  IF MapHas(map, key)
    THEN [i \in 1..Len(map) |-> IF map[i].k = key THEN Member(key, value) ELSE map[i]]
    ELSE Append(map, Member(key, value))

MapKeys(map) == [i \in 1..Len(map) |-> map[i].k]

\* prefix ? `${prefix}.${key}` : key
PathOf(prefix, key) == IF prefix # "" THEN prefix \o "." \o key ELSE key

\* value && typeof value === 'object' && !Array.isArray(value)
IsPlainObject(value) == value.t = "obj"

\* getConfigPaths having visited the first i-1 members of obj
RECURSIVE getConfigPathsFrom(_, _, _, _)
getConfigPathsFrom(obj, prefix, paths, i) ==
  IF i > Len(obj.kv) THEN paths
  ELSE LET key == obj.kv[i].k
           value == obj.kv[i].v
           path == PathOf(prefix, key)
       IN IF key = "_metadata"
            THEN getConfigPathsFrom(obj, prefix, paths, i + 1)
            ELSE IF IsPlainObject(value)
              THEN getConfigPathsFrom(obj, prefix,
                                      getConfigPathsFrom(value, path, paths, 1), i + 1)
              ELSE getConfigPathsFrom(obj, prefix, MapSet(paths, path, value), i + 1)

getConfigPaths(obj) == getConfigPathsFrom(obj, "", <<>>, 1)

\* JSON.stringify(oldPaths.get(path)) !== JSON.stringify(value)
LeafDiffers(oldValue, newValue) ==
  JSONstringify(oldValue, FALSE, <<>>) # JSONstringify(newValue, FALSE, <<>>)

ChangesSummary(added, modified, removed, total) ==
  [added |-> added, modified |-> modified, removed |-> removed, total |-> total]

\* the "everything added" result of a first apply
Sentinel == ChangesSummary(<<"*">>, <<>>, <<>>, 1)

\* calculateChanges with a fault: a first apply lists the paths of the new document
calculateChangesEnumerating(oldConfig, newConfig) ==
  LET added == MapKeys(getConfigPaths(newConfig))
  IN IF oldConfig.t = "undefined"
       THEN ChangesSummary(added, <<>>, <<>>, Len(added))
       ELSE LET oldPaths == getConfigPaths(oldConfig)
                newPaths == getConfigPaths(newConfig)
                add == SelectSeq(MapKeys(newPaths), LAMBDA q : ~MapHas(oldPaths, q))
                rem == SelectSeq(MapKeys(oldPaths), LAMBDA q : ~MapHas(newPaths, q))
            IN ChangesSummary(add, <<>>, rem, Len(add) + Len(rem))

\* calculateChanges with a fault: a changed leaf is listed as added as well
calculateChangesOverlapping(oldConfig, newConfig) ==
  IF oldConfig.t = "undefined" THEN Sentinel
  ELSE LET oldPaths == getConfigPaths(oldConfig)
           newPaths == getConfigPaths(newConfig)
           modified == SelectSeq(MapKeys(newPaths), LAMBDA q :
                         /\ MapHas(oldPaths, q)
                         /\ LeafDiffers(MapGet(oldPaths, q), MapGet(newPaths, q)))
           added == SelectSeq(MapKeys(newPaths), LAMBDA q :
                         \/ ~MapHas(oldPaths, q)
                         \/ LeafDiffers(MapGet(oldPaths, q), MapGet(newPaths, q)))
           removed == SelectSeq(MapKeys(oldPaths), LAMBDA q : ~MapHas(newPaths, q))
       IN ChangesSummary(added, modified, removed,
                         Len(added) + Len(modified) + Len(removed))

\* calculateChanges with a fault: the removed paths are not looked for
calculateChangesNoRemoved(oldConfig, newConfig) ==
  IF oldConfig.t = "undefined" THEN Sentinel
  ELSE LET oldPaths == getConfigPaths(oldConfig)
           newPaths == getConfigPaths(newConfig)
           added == SelectSeq(MapKeys(newPaths), LAMBDA q : ~MapHas(oldPaths, q))
           modified == SelectSeq(MapKeys(newPaths), LAMBDA q :
                         /\ MapHas(oldPaths, q)
                         /\ LeafDiffers(MapGet(oldPaths, q), MapGet(newPaths, q)))
       IN ChangesSummary(added, modified, <<>>, Len(added) + Len(modified))

calculateChanges(oldConfig, newConfig) ==
  IF oldConfig.t = "undefined" THEN Sentinel
  ELSE LET oldPaths == getConfigPaths(oldConfig)
           newPaths == getConfigPaths(newConfig)
           \* for (const [path, value] of newPaths.entries())
           added == SelectSeq(MapKeys(newPaths), LAMBDA q : ~MapHas(oldPaths, q))
           modified == SelectSeq(MapKeys(newPaths), LAMBDA q :
                         /\ MapHas(oldPaths, q)
                         /\ LeafDiffers(MapGet(oldPaths, q), MapGet(newPaths, q)))
           \* for (const path of oldPaths.keys())
           removed == SelectSeq(MapKeys(oldPaths), LAMBDA q : ~MapHas(newPaths, q))
       IN ChangesSummary(added, modified, removed,
                         Len(added) + Len(modified) + Len(removed))

(***************************************************************************)
(* cli/utils/validation.ts                                                 *)
(***************************************************************************)
\* JavaScript truthiness of a JSON value (undefined for an absent member)
Truthy(value) ==
  CASE value.t \in {"undefined", "null"} -> FALSE
    [] value.t = "bool" -> value.s = "true"
    [] value.t = "str" -> value.s # ""
    [] value.t = "num" -> value.s # "0"
    [] value.t \in {"obj", "arr"} -> TRUE

\* value?.length || 0 for a list
LengthOf(value) == IF value.t = "arr" THEN Len(value.kv) ELSE 0

\* suggestion is "" for a finding that carries none
ValidationResult(path, level, message, suggestion) ==
  [path |-> path, level |-> level, message |-> message, suggestion |-> suggestion]

\* `${value}` in a template string
Interpolate(value) == IF value.t = "undefined" THEN "undefined" ELSE value.s

\* the strings new URL(url) accepts: parsing is not modelled, an absolute
\* URL is one of these
ParseableUrls == {"https://example.com/home"}

\* isValidUrl with a fault: only absolute URLs pass
isValidUrlAbsoluteOnly(url) == url \in ParseableUrls

isValidUrl(url) ==
  \/ Len(url) >= 1 /\ SubSeq(url, 1, 1) = "/"
  \/ url \in ParseableUrls

urlFields == <<"signInUrl", "signUpUrl", "afterSignInUrl", "afterSignUpUrl", "homeUrl">>

RECURSIVE Flatten(_)
Flatten(seqs) == IF Len(seqs) = 0 THEN <<>> ELSE Head(seqs) \o Flatten(Tail(seqs))

\* if (!config.version)
VersionFindings(config) ==
  IF ~Truthy(Get(config, "version"))
    THEN <<ValidationResult("version", "error", "Config version is required",
                           "Add \"version\": \"1.0\" to your config")>>
    ELSE <<>>

\* if (config.authentication) { ... }
AuthenticationFindings(config) ==
  LET authentication == Get(config, "authentication")
      providers == Get(authentication, "providers")
      hasOAuth == /\ Truthy(providers)
                  /\ \E i \in 1..Len(providers.kv) :
                       Truthy(Get(providers.kv[i].v, "enabled"))
      emailVerifyAtSignUp ==
        Get(Get(Get(Get(authentication, "signUp"), "attributes"), "emailAddress"),
            "verifyAtSignUp")
      mode == Get(Get(authentication, "signUp"), "mode")
  IN IF ~Truthy(authentication) THEN <<>>
     ELSE (IF hasOAuth /\ ~Truthy(emailVerifyAtSignUp)
             THEN <<ValidationResult(
                      "authentication.signUp.attributes.emailAddress.verifyAtSignUp",
                      "warning",
                      "Consider enabling email verification when using OAuth providers",
                      "Set verifyAtSignUp: true for better security")>>
             ELSE <<>>)
          \o (IF mode = Str("restricted")
                THEN <<ValidationResult("authentication.signUp.mode", "warning",
                                        "Restricted mode requires Pro plan or higher",
                                        "Ensure your plan supports restricted sign-up mode")>>
                ELSE <<>>)

\* RoleFindings with a fault: only the key is required
RoleFindingsKeyOnly(role, index) ==
  (IF ~Truthy(Get(role, "key"))
     THEN <<ValidationResult("organizations.roles[" \o ToString(index) \o "]", "error",
                             "Role must have both \"key\" and \"name\" properties",
                             "Add required role properties")>>
     ELSE <<>>)
  \o (IF Truthy(Get(role, "permissions")) /\ LengthOf(Get(role, "permissions")) = 0
        THEN <<ValidationResult(
                 "organizations.roles[" \o ToString(index) \o "].permissions", "warning",
                 "Role \"" \o Interpolate(Get(role, "name")) \o "\" has no permissions",
                 "Consider adding permissions or removing the role")>>
        ELSE <<>>)

\* the body of config.organizations.roles?.forEach((role, index) => ...);
\* index counts from 0
RoleFindings(role, index) ==
  (IF ~Truthy(Get(role, "key")) \/ ~Truthy(Get(role, "name"))
     THEN <<ValidationResult("organizations.roles[" \o ToString(index) \o "]", "error",
                             "Role must have both \"key\" and \"name\" properties",
                             "Add required role properties")>>
     ELSE <<>>)
  \o (IF Truthy(Get(role, "permissions")) /\ LengthOf(Get(role, "permissions")) = 0
        THEN <<ValidationResult(
                 "organizations.roles[" \o ToString(index) \o "].permissions", "warning",
                 "Role \"" \o Interpolate(Get(role, "name")) \o "\" has no permissions",
                 "Consider adding permissions or removing the role")>>
        ELSE <<>>)

\* OrganizationsFindings with a fault: the plan limit is tested with >=
OrganizationsFindingsOffByOne(config) ==
  LET organizations == Get(config, "organizations")
      roles == Get(organizations, "roles")
      roleCount == LengthOf(roles)
  IN IF ~Truthy(Get(organizations, "enabled")) THEN <<>>
     ELSE (IF roleCount >= 5
             THEN <<ValidationResult("organizations.roles", "warning",
                      "You have " \o ToString(roleCount)
                        \o " custom roles (free plan supports max 5)",
                      "Consider upgrading to Pro plan or reducing roles")>>
             ELSE <<>>)
          \o (IF roleCount > 10
                THEN <<ValidationResult("organizations.roles", "info",
                         "You have " \o ToString(roleCount) \o " custom roles (limit: 20)",
                         "You are approaching the role limit")>>
                ELSE <<>>)
          \o Flatten([i \in 1..roleCount |-> RoleFindings(roles.kv[i].v, i - 1)])

\* if (config.organizations?.enabled) { ... }
OrganizationsFindings(config) ==
  LET organizations == Get(config, "organizations")
      roles == Get(organizations, "roles")
      roleCount == LengthOf(roles)
  IN IF ~Truthy(Get(organizations, "enabled")) THEN <<>>
     ELSE (IF roleCount > 5
             THEN <<ValidationResult("organizations.roles", "warning",
                      "You have " \o ToString(roleCount)
                        \o " custom roles (free plan supports max 5)",
                      "Consider upgrading to Pro plan or reducing roles")>>
             ELSE <<>>)
          \o (IF roleCount > 10
                THEN <<ValidationResult("organizations.roles", "info",
                         "You have " \o ToString(roleCount) \o " custom roles (limit: 20)",
                         "You are approaching the role limit")>>
                ELSE <<>>)
          \o Flatten([i \in 1..roleCount |-> RoleFindings(roles.kv[i].v, i - 1)])

\* if (config.redirects) { urlFields.forEach(...) }
RedirectsFindings(config) ==
  LET redirects == Get(config, "redirects")
  IN IF ~Truthy(redirects) THEN <<>>
     ELSE Flatten([i \in 1..Len(urlFields) |->
            LET url == Get(redirects, urlFields[i])
            IN IF Truthy(url) /\ ~isValidUrl(url.s)
                 THEN <<ValidationResult("redirects." \o urlFields[i], "error",
                                         "Invalid URL format: " \o url.s,
                                         "Use absolute URLs (https://...) or relative paths (/...)")>>
                 ELSE <<>>])

\* validateConfig with a fault: the version check is left out
validateConfigNoVersionCheck(config) ==
  AuthenticationFindings(config) \o OrganizationsFindings(config)
    \o RedirectsFindings(config)

validateConfig(config) ==
  VersionFindings(config) \o AuthenticationFindings(config)
    \o OrganizationsFindings(config) \o RedirectsFindings(config)

\* hasErrors with a fault: warnings count as errors
hasErrorsOrWarnings(results) ==
  \E i \in 1..Len(results) : results[i].level \in {"error", "warning"}

hasErrors(results) == \E i \in 1..Len(results) : results[i].level = "error"

hasWarnings(results) == \E i \in 1..Len(results) : results[i].level = "warning"

(***************************************************************************)
(* server/index.ts: the in-memory store and the PUT handler.               *)
(***************************************************************************)
defaultConfig ==
  Obj(<<
    Member("version", Str("1.0")),
    Member("_metadata", Obj(<<Member("name", Str("default-config")),
                              Member("instanceId", Str("ins_default"))>>)),
    Member("authentication", Obj(<<
      Member("signIn", Obj(<<
        Member("attributes", Arr(<<Str("email_address")>>)),
        Member("strategies", Obj(<<Member("password", Bool(TRUE)),
                                   Member("emailCode", Bool(TRUE))>>))>>)),
      Member("signUp", Obj(<<
        Member("mode", Str("public")),
        Member("attributes", Obj(<<
          Member("emailAddress", Obj(<<Member("enabled", Bool(TRUE)),
                                       Member("required", Bool(TRUE)),
                                       Member("verifyAtSignUp", Bool(FALSE))>>))>>))>>))>>)),
    Member("redirects", Obj(<<Member("signInUrl", Str("/sign-in")),
                              Member("signUpUrl", Str("/sign-up")),
                              Member("afterSignInUrl", Str("/dashboard")),
                              Member("afterSignUpUrl", Str("/onboarding"))>>)),
    Member("organizations", Obj(<<Member("enabled", Bool(FALSE))>>))
  >>)

\* one entry of StoredConfig.history
HistoryEntry(configHash, appliedAt, appliedBy, source) ==
  [configHash |-> configHash, appliedAt |-> appliedAt, appliedBy |-> appliedBy,
   source |-> source]

StoredConfig(instanceId, config, configHash, lastModified, lastModifiedBy, lastModifiedSource, history) ==
  [instanceId |-> instanceId, config |-> config, configHash |-> configHash,
   lastModified |-> lastModified, lastModifiedBy |-> lastModifiedBy,
   lastModifiedSource |-> lastModifiedSource, history |-> history]

\* configStore.get(instanceId) of a key the map does not hold
NotStored == StoredConfig("", Undefined, "", -1, "", "", <<>>)

\* the metadata of an apply request; NoMetadata: the body carries none
Metadata(configHash, appliedAt, appliedBy, source, version) ==
  [configHash |-> configHash, appliedAt |-> appliedAt, appliedBy |-> appliedBy,
   source |-> source, version |-> version]

NoMetadata == Metadata("", -1, "", "", Undefined)

\* a PUT /v1/instances/:instanceId/config request in flight
PutRequest(instanceId, config, metadata) ==
  [instanceId |-> instanceId, config |-> config, metadata |-> metadata]

NoRequest == PutRequest("", Undefined, NoMetadata)

\* the reply to a PUT: status 200 with the ConfigResponse, or status 400
Response(status, config, configHash, appliedAt, validationResults, changesSummary) ==
  [status |-> status, config |-> config, configHash |-> configHash,
   appliedAt |-> appliedAt, validationResults |-> validationResults,
   changesSummary |-> changesSummary]

NoResponse == Response(0, Undefined, "", -1, <<>>, ChangesSummary(<<>>, <<>>, <<>>, -1))

BadRequest == Response(400, Undefined, "", -1, <<>>, ChangesSummary(<<>>, <<>>, <<>>, -1))

\* the checks the PUT handler runs on the submitted document
ServerValidation(config) ==
  LET mode == Get(Get(Get(config, "authentication"), "signUp"), "mode")
      roleCount == LengthOf(Get(Get(config, "organizations"), "roles"))
  IN (IF mode = Str("restricted")
        THEN <<ValidationResult("authentication.signUp.mode", "warning",
                                "Restricted mode requires Pro plan or higher", "")>>
        ELSE <<>>)
     \o (IF roleCount > 5
           THEN <<ValidationResult("organizations.roles", "info",
                    "You have " \o ToString(roleCount) \o " custom roles", "")>>
           ELSE <<>>)

\* RequestShapeOk with a fault: the metadata is not looked at
RequestShapeOkConfigOnly(request) == Truthy(request.config)

\* if (!config || !metadata) return res.status(400)
RequestShapeOk(request) == Truthy(request.config) /\ request.metadata # NoMetadata

\* NewStored with a fault: the history starts over with the new entry
NewStoredHistoryReset(stored, request) ==
  StoredConfig(request.instanceId, request.config, request.metadata.configHash,
               request.metadata.appliedAt, request.metadata.appliedBy,
               request.metadata.source,
               <<HistoryEntry(request.metadata.configHash, request.metadata.appliedAt,
                              request.metadata.appliedBy, request.metadata.source)>>)

\* NewStored with a fault: lastModifiedBy keeps its previous value
NewStoredStaleActor(stored, request) ==
  StoredConfig(request.instanceId, request.config, request.metadata.configHash,
               request.metadata.appliedAt, stored.lastModifiedBy,
               request.metadata.source,
               Append(stored.history,
                      HistoryEntry(request.metadata.configHash, request.metadata.appliedAt,
                                   request.metadata.appliedBy, request.metadata.source)))

\* NewStored with a fault: the document of the previous revision is kept
NewStoredTorn(stored, request) ==
  StoredConfig(request.instanceId, stored.config, request.metadata.configHash,
               request.metadata.appliedAt, request.metadata.appliedBy,
               request.metadata.source,
               Append(stored.history,
                      HistoryEntry(request.metadata.configHash, request.metadata.appliedAt,
                                   request.metadata.appliedBy, request.metadata.source)))

\* the StoredConfig the handler builds from the request and the current entry
NewStored(stored, request) ==
  StoredConfig(request.instanceId, request.config, request.metadata.configHash,
               request.metadata.appliedAt, request.metadata.appliedBy,
               request.metadata.source,
               Append(stored.history,
                      HistoryEntry(request.metadata.configHash, request.metadata.appliedAt,
                                   request.metadata.appliedBy, request.metadata.source)))

\* the ConfigResponse of an accepted PUT; previousConfig = stored?.config
PutResponse(stored, request) ==
  Response(200, request.config, request.metadata.configHash, request.metadata.appliedAt,
           ServerValidation(request.config),
           calculateChanges(stored.config, request.config))

\* the reply to a GET: status 200 with the body, or 404; the reply of
\* GET .../config carries the document alone
ReadReply(kind, instanceId, status, config, configHash, lastModified, lastModifiedBy, lastModifiedSource) ==
  [kind |-> kind, instanceId |-> instanceId, status |-> status, config |-> config,
   configHash |-> configHash, lastModified |-> lastModified,
   lastModifiedBy |-> lastModifiedBy, lastModifiedSource |-> lastModifiedSource]

NoRead == ReadReply("none", "", 0, Undefined, "", -1, "", "")

\* what the client that sent the last GET holds: the time the GET was
\* served and the reply
Observation(at, reply) == [at |-> at, reply |-> reply]

\* app.get('/v1/instances/:instanceId/config/status', ...)
GetStatusReply(instanceId, stored) ==
  IF stored = NotStored
    THEN ReadReply("status", instanceId, 404, Undefined, "", -1, "", "")
    ELSE ReadReply("status", instanceId, 200, stored.config, stored.configHash,
                   stored.lastModified, stored.lastModifiedBy, stored.lastModifiedSource)

\* app.get('/v1/instances/:instanceId/config', ...)
GetConfigReply(instanceId, stored) ==
  IF stored = NotStored
    THEN ReadReply("config", instanceId, 404, Undefined, "", -1, "", "")
    ELSE ReadReply("config", instanceId, 200, stored.config, "", -1, "", "")

(***************************************************************************)
(* cli/commands/apply.ts                                                   *)
(***************************************************************************)
\* config._metadata?.instanceId || process.env.CLERK_INSTANCE_ID || 'ins_default'
\* (envInstanceId = "": the variable is not set)
ApplyInstanceId(config, envInstanceId) ==
  LET fromConfig == Get(Get(config, "_metadata"), "instanceId")
  IN IF Truthy(fromConfig) THEN fromConfig.s
     ELSE IF envInstanceId # "" THEN envInstanceId
     ELSE "ins_default"

\* the request applyConfig(instanceId, config, {...}) sends
ApplyRequest(config, envInstanceId, appliedAt) ==
  PutRequest(ApplyInstanceId(config, envInstanceId), config,
             Metadata(generateConfigHash(config), appliedAt, "cli-user", "cli",
                      Get(config, "version")))

(***************************************************************************)
(* cli/commands/import.ts and cli/commands/status.ts                       *)
(***************************************************************************)
\* process.env.CLERK_INSTANCE_ID || 'ins_default'
EnvInstanceId(envInstanceId) ==
  IF envInstanceId # "" THEN envInstanceId ELSE "ins_default"

\* { ...target, ...source }: each member of source set in turn, a key already
\* there keeping its place; spreading undefined adds nothing
RECURSIVE SpreadFrom(_, _, _)
SpreadFrom(target, source, i) ==
  IF source.t # "obj" \/ i > Len(source.kv) THEN target
  ELSE SpreadFrom(MapSet(target, source.kv[i].k, source.kv[i].v), source, i + 1)

DefaultSchema == Str("https://clerk.com/schemas/config/v1.json")

\* the document importCommand writes: $schema first, the remote members, and
\* the metadata with configHash, instanceId and lastApplied set
configWithMetadata(remoteConfig, configHash, instanceId, lastApplied) ==
  LET schema == IF Truthy(Get(remoteConfig, "$schema"))
                  THEN Get(remoteConfig, "$schema") ELSE DefaultSchema
      metadata ==
        MapSet(MapSet(MapSet(SpreadFrom(<<>>, Get(remoteConfig, "_metadata"), 1),
                             "configHash", Str(configHash)),
                      "instanceId", Str(instanceId)),
               "lastApplied", Str(lastApplied))
  IN Obj(MapSet(SpreadFrom(<<Member("$schema", schema)>>, remoteConfig, 1),
                "_metadata", Obj(metadata)))

\* the value parseJSONC reads back from JSON.stringify(value, null, 2): a
\* member whose value is undefined is not written, an undefined item of an
\* array is written as null; the text has no comment to strip
RECURSIVE WrittenThenParsed(_)
WrittenThenParsed(value) ==
  IF value.t = "obj"
    THEN LET kept == SelectSeq(value.kv, LAMBDA m : m.v.t # "undefined")
         IN Obj([i \in 1..Len(kept) |-> Member(kept[i].k, WrittenThenParsed(kept[i].v))])
  ELSE IF value.t = "arr"
    THEN Arr([i \in 1..Len(value.kv) |->
                IF value.kv[i].v.t = "undefined"
                  THEN [t |-> "null", s |-> "", kv |-> <<>>]
                  ELSE WrittenThenParsed(value.kv[i].v)])
  ELSE value

\* outputPath of importCommand
ImportPath == "./clerk.config.jsonc"

\* an import or status process: pc is "idle", "fetched" (the GET answered,
\* the reply not read yet), "done" or "exited" (process.exit(1)); command is
\* "import" or "status"; configPath is the file named ("": none); reply is
\* the answer to its GET; config is the document written or read; inSync is
\* "in sync", "drifted" or "unknown" (nothing compared)
ShellState(pc, command, configPath, reply, config, inSync, exitCode) ==
  [pc |-> pc, command |-> command, configPath |-> configPath, reply |-> reply,
   config |-> config, inSync |-> inSync, exitCode |-> exitCode]

NoShell == ShellState("idle", "none", "", Observation(0, NoRead), Undefined, "unknown", -1)

(***************************************************************************)
(* Bounded sets of documents.                                              *)
(***************************************************************************)
DistinctKeys(members) ==
  \A i, j \in 1..Len(members) : members[i].k = members[j].k => i = j

\* the objects of at most n members with keys in DOMAIN V and, for key k, a
\* value in V[k]
ObjectsOver(V, n) ==
  LET members == UNION {{Member(k, v) : v \in V[k]} : k \in DOMAIN V}
  IN {Obj(kv) : kv \in {s \in UNION {[1..m -> members] : m \in 0..n} : DistinctKeys(s)}}

OrgValues(k) ==
  CASE k = "enabled" -> {Bool(TRUE), Bool(FALSE)}
    [] k = "version" -> {Str("1.0"), Str("2.0")}

MetaValues(k) == {Str("default-config"), Str("my-app-config")}

HashDocValues(k) ==
  CASE k = "version" -> {Str("1.0")}
    [] k = "organizations" -> ObjectsOver([key \in {"enabled", "version"} |-> OrgValues(key)], MaxKeys)
    [] k = "_metadata" -> ObjectsOver([key \in {"name"} |-> MetaValues(key)], 1)

\* the documents handed to the hasher
HashDocs ==
  ObjectsOver([key \in {"version", "organizations", "_metadata"} |-> HashDocValues(key)],
              MaxKeys)

AdminRole ==
  Obj(<<Member("name", Str("Admin")), Member("key", Str("admin")),
        Member("permissions", Arr(<<Str("x")>>))>>)

\* the same role written with its key first
AdminRoleKeyFirst ==
  Obj(<<Member("key", Str("admin")), Member("name", Str("Admin")),
        Member("permissions", Arr(<<Str("x")>>))>>)

DiffOrgValues(k) ==
  CASE k = "enabled" -> {Bool(TRUE), Bool(FALSE)}
    [] k = "roles" -> {Arr(<<>>), Arr(<<AdminRole>>), Arr(<<AdminRoleKeyFirst>>)}

DiffDocValues(k) ==
  CASE k = "version" -> {Str("1.0")}
    [] k = "organizations" -> ObjectsOver([key \in {"enabled", "roles"} |-> DiffOrgValues(key)], MaxKeys)
    [] k = "organizations.enabled" -> {Bool(TRUE), Bool(FALSE)}
    [] k = "_metadata" -> {Obj(<<Member("name", Str("default-config"))>>)}

\* the documents handed to the change detector
DiffDocs ==
  ObjectsOver([key \in {"version", "organizations", "organizations.enabled", "_metadata"}
                 |-> DiffDocValues(key)],
              MaxKeys)

\* role entries: well formed, without key, without name, with an empty key,
\* with neither, with an empty permissions list, with the last two at once
RoleKinds ==
  { AdminRole,
    Obj(<<Member("name", Str("Admin"))>>),
    Obj(<<Member("key", Str("admin"))>>),
    Obj(<<Member("name", Str("Admin")), Member("key", Str(""))>>),
    Obj(<<>>),
    Obj(<<Member("name", Str("Admin")), Member("key", Str("admin")),
          Member("permissions", Arr(<<>>))>>),
    Obj(<<Member("name", Str("Admin")), Member("permissions", Arr(<<>>))>>) }

\* role lists: every list of at most MaxShapeRoles entries of any kind, and
\* the lists of up to MaxRoles well-formed roles
RoleLists ==
  {Arr(roles) : roles \in UNION {[1..n -> RoleKinds] : n \in 0..MaxShapeRoles}}
    \cup {Arr([i \in 1..n |-> AdminRole]) : n \in 0..MaxRoles}

\* organizations sections: enabled true, false or absent, with or without roles
ValOrganizations ==
  LET enabled == {<<>>} \cup {<<Member("enabled", Bool(b))>> : b \in BOOLEAN}
      roles == {<<>>} \cup {<<Member("roles", list)>> : list \in RoleLists}
  IN {Obj(e \o r) : e \in enabled, r \in roles}

\* values of a redirect field: a path, an absolute URL, text that is neither,
\* and the empty string
RedirectValues(field) ==
  {Str("/sign-in"), Str("https://example.com/home"), Str("not a url"), Str("")}

ValRedirects ==
  ObjectsOver([field \in Range(urlFields) |-> RedirectValues(field)], MaxKeys)

\* the documents handed to the validator
ValDocs ==
  {Obj(<<Member("version", Str("1.0")), Member("organizations", o)>>) :
     o \in ValOrganizations}
    \cup {Obj(<<Member("version", Str("1.0")), Member("redirects", r)>>) :
            r \in ValRedirects}

(***************************************************************************)
(* The configuration files the CLI is run on, and the bodies other         *)
(* clients PUT.                                                            *)
(***************************************************************************)
\* valid, no finding
OrgsOffConfig ==
  Obj(<<Member("version", Str("1.0")),
        Member("organizations", Obj(<<Member("enabled", Bool(FALSE))>>))>>)

\* no version: an error finding
NoVersionConfig ==
  Obj(<<Member("organizations", Obj(<<Member("enabled", Bool(FALSE))>>))>>)

\* a warning finding and no error
RestrictedConfig ==
  Obj(<<Member("version", Str("1.0")),
        Member("authentication",
               Obj(<<Member("signUp", Obj(<<Member("mode", Str("restricted"))>>))>>))>>)

\* valid, addressed to ins_prod by its metadata
ProdConfig ==
  Obj(<<Member("version", Str("1.0")),
        Member("_metadata", Obj(<<Member("instanceId", Str("ins_prod"))>>)),
        Member("organizations", Obj(<<Member("enabled", Bool(TRUE)),
                                      Member("roles", Arr(<<AdminRole>>))>>))>>)

\* a version, and errors: a role without key, a redirect that is no URL
BadRoleConfig ==
  Obj(<<Member("version", Str("1.0")),
        Member("organizations",
               Obj(<<Member("enabled", Bool(TRUE)),
                     Member("roles", Arr(<<Obj(<<Member("name", Str("Admin"))>>)>>))>>)),
        Member("redirects", Obj(<<Member("signInUrl", Str("not a url"))>>))>>)

CliFiles == {OrgsOffConfig, NoVersionConfig, RestrictedConfig, ProdConfig, BadRoleConfig}

\* six roles with organizations enabled: a warning finding and no error
SixRolesConfig ==
  Obj(<<Member("version", Str("1.0")),
        Member("organizations", Obj(<<Member("enabled", Bool(TRUE)),
                                      Member("roles", Arr([i \in 1..6 |-> AdminRole]))>>))>>)

\* valid, with a $schema of its own
SchemaConfig ==
  Obj(<<Member("$schema", Str("./schema.json")),
        Member("version", Str("1.0")),
        Member("organizations", Obj(<<Member("enabled", Bool(FALSE))>>))>>)

\* the configuration files in the directory of the shell that runs apply,
\* import and status, by path
ShellPaths == {"orgs-off.jsonc", "prod.jsonc", "six-roles.jsonc", "schema.jsonc"}

ShellFile(configPath) ==
  CASE configPath = "orgs-off.jsonc" -> OrgsOffConfig
    [] configPath = "prod.jsonc" -> ProdConfig
    [] configPath = "six-roles.jsonc" -> SixRolesConfig
    [] configPath = "schema.jsonc" -> SchemaConfig

\* the CLI client whose commands that shell runs
ShellClient == "cli1"

\* process.env.CLERK_INSTANCE_ID ("": not set)
EnvInstanceIds == {"", "ins_prod"}

InstanceIds == {"ins_default", "ins_prod"}

CliClients == {"cli1", "cli2"}

ApiClient == "dashboard"

Clients == CliClients \cup {ApiClient}

\* the bodies a client other than the CLI sends: any document or none, with
\* metadata whose hash is that of the document, or is not, or with none
ApiRequests(appliedAt) ==
  {PutRequest(id, config, metadata) :
     id \in InstanceIds,
     config \in {OrgsOffConfig, NoVersionConfig, Undefined},
     metadata \in {Metadata(h, appliedAt, "dashboard-user", "dashboard", Str("1.0")) :
                     h \in {generateConfigHash(OrgsOffConfig), "sha256:stale"}}
                  \cup {NoMetadata}}

(***************************************************************************)
(* State.                                                                  *)
(***************************************************************************)
VARIABLES
  configA, configB,     \* two parsed documents
  hashA, hashB,         \* their hashes ("" until computed)
  oldConfig, newConfig, \* the arguments of calculateChanges (Undefined: no previous)
  oldPaths, newPaths,   \* its two flattened path maps
  changes,              \* its result (NoChanges until computed)
  configStore,          \* the server's Map: instance key -> StoredConfig or NotStored
  requests,             \* client -> its PUT request in flight, or NoRequest
  responses,            \* client -> the reply it has not read yet, or NoResponse
  cli,                  \* CLI client -> [pc, config, validationResults, exitCode]
  observed,             \* the last GET served: when, and its reply (NoRead: none yet)
  now,                  \* the clock: commands started so far
  valConfig,            \* the argument of validateConfig
  valResults,           \* its findings (NotValidated until computed)
  env,                  \* CLERK_INSTANCE_ID in the shell ("": not set)
  imported,             \* the file at ImportPath (Undefined: not written)
  shell                 \* the shell's import or status process

vars ==
  <<configA, configB, hashA, hashB, oldConfig, newConfig, oldPaths, newPaths, changes,
    configStore, requests, responses, cli, observed, now, valConfig, valResults,
    env, imported, shell>>

hashVars == <<configA, configB, hashA, hashB>>

diffVars == <<oldConfig, newConfig, oldPaths, newPaths, changes>>

sysVars == <<configStore, requests, responses, cli, observed, now>>

valVars == <<valConfig, valResults>>

shellVars == <<env, imported, shell>>

\* no import and no status run
ShellIdle == env = "" /\ imported = Undefined /\ shell = NoShell

NotValidated == <<ValidationResult("", "pending", "", "")>>

\* the validator at rest
ValIdle == valConfig = Obj(<<>>) /\ valResults = NotValidated

NoChanges == ChangesSummary(<<>>, <<>>, <<>>, -1)

\* the hasher and the change detector at rest
HashIdle == configA = Obj(<<>>) /\ configB = Obj(<<>>) /\ hashA = "" /\ hashB = ""

DiffIdle ==
  /\ oldConfig = Undefined /\ newConfig = Obj(<<>>)
  /\ oldPaths = <<>> /\ newPaths = <<>> /\ changes = NoChanges

\* a CLI process: pc is "idle" (not run), "awaiting" (PUT sent, no reply
\* read), "done" (exit 0) or "exited" (process.exit(1))
CliState(pc, config, validationResults, exitCode) ==
  [pc |-> pc, config |-> config, validationResults |-> validationResults,
   exitCode |-> exitCode]

\* the state once the server module is loaded and no command has run
InitSystem ==
  /\ configStore =
       [id \in InstanceIds |->
          IF id = "ins_default"
            THEN StoredConfig("ins_default", defaultConfig,
                              generateConfigHash(defaultConfig), 0, "system", "api", <<>>)
            ELSE NotStored]
  /\ requests = [c \in Clients |-> NoRequest]
  /\ responses = [c \in Clients |-> NoResponse]
  /\ cli = [c \in CliClients |-> CliState("idle", Undefined, <<>>, -1)]
  /\ observed = Observation(0, NoRead)
  /\ now = 0

\* no server and no CLI process: the hasher or the change detector alone
SystemIdle ==
  /\ configStore = <<>> /\ requests = <<>> /\ responses = <<>> /\ cli = <<>>
  /\ observed = Observation(0, NoRead) /\ now = 0

(***************************************************************************)
(* The hasher applied to two documents.                                    *)
(***************************************************************************)
InitHash ==
  /\ configA \in HashDocs
  /\ configB \in HashDocs
  /\ hashA = ""
  /\ hashB = ""
  /\ DiffIdle
  /\ ValIdle
  /\ ShellIdle
  /\ SystemIdle

HashBoth ==
  /\ hashA = ""
  /\ hashA' = generateConfigHash(configA)
  /\ hashB' = generateConfigHash(configB)
  /\ UNCHANGED <<configA, configB>>
  /\ UNCHANGED diffVars
  /\ UNCHANGED valVars
  /\ UNCHANGED shellVars
  /\ UNCHANGED sysVars

NextHash == HashBoth

SpecHash == InitHash /\ [][NextHash]_vars

Hashed == hashA # ""

(***************************************************************************)
(* The change detector applied to a previous document, or none, and a new  *)
(* one.                                                                    *)
(***************************************************************************)
InitDiff ==
  /\ oldConfig \in DiffDocs \cup {Undefined}
  /\ newConfig \in DiffDocs
  /\ oldPaths = <<>>
  /\ newPaths = <<>>
  /\ changes = NoChanges
  /\ HashIdle
  /\ ValIdle
  /\ ShellIdle
  /\ SystemIdle

CalculateChanges ==
  /\ changes = NoChanges
  /\ changes' = calculateChanges(oldConfig, newConfig)
  /\ oldPaths' = IF oldConfig.t = "undefined" THEN <<>> ELSE getConfigPaths(oldConfig)
  /\ newPaths' = IF oldConfig.t = "undefined" THEN <<>> ELSE getConfigPaths(newConfig)
  /\ UNCHANGED <<oldConfig, newConfig>>
  /\ UNCHANGED hashVars
  /\ UNCHANGED valVars
  /\ UNCHANGED shellVars
  /\ UNCHANGED sysVars

NextDiff == CalculateChanges

SpecDiff == InitDiff /\ [][NextDiff]_vars

Diffed == changes # NoChanges

(***************************************************************************)
(* The validator applied to a document.                                    *)
(***************************************************************************)
InitValidate ==
  /\ valConfig \in ValDocs
  /\ valResults = NotValidated
  /\ HashIdle
  /\ DiffIdle
  /\ ShellIdle
  /\ SystemIdle

Validate ==
  /\ valResults = NotValidated
  /\ valResults' = validateConfig(valConfig)
  /\ UNCHANGED valConfig
  /\ UNCHANGED hashVars
  /\ UNCHANGED diffVars
  /\ UNCHANGED shellVars
  /\ UNCHANGED sysVars

NextValidate == Validate

SpecValidate == InitValidate /\ [][NextValidate]_vars

Validated == valResults # NotValidated

(***************************************************************************)
(* The store, the CLI apply command and the other clients of the PUT       *)
(* endpoint.                                                               *)
(***************************************************************************)
Init == HashIdle /\ DiffIdle /\ ValIdle /\ ShellIdle /\ InitSystem

\* applyCommand up to its await: parse, validate, exit(1) on an error
\* finding, else hash and send the PUT
ApplyCommand(c, config, envInstanceId) ==
  /\ now < MaxCommands
  /\ cli[c].pc # "awaiting"
  /\ now' = now + 1
  /\ LET validationResults == validateConfig(config)
     IN IF hasErrors(validationResults)
          THEN /\ cli' = [cli EXCEPT ![c] = CliState("exited", config, validationResults, 1)]
               /\ UNCHANGED requests
          ELSE /\ cli' = [cli EXCEPT ![c] = CliState("awaiting", config, validationResults, -1)]
               /\ requests' = [requests EXCEPT ![c] = ApplyRequest(config, envInstanceId, now')]
  /\ UNCHANGED <<configStore, responses, observed>>
  /\ UNCHANGED hashVars
  /\ UNCHANGED diffVars
  /\ UNCHANGED valVars
  /\ UNCHANGED shellVars

\* another client (the dashboard, a script) sends a PUT of its own
ApiPut(request) ==
  /\ now < MaxCommands
  /\ requests[ApiClient] = NoRequest
  /\ now' = now + 1
  /\ requests' = [requests EXCEPT ![ApiClient] = request]
  /\ UNCHANGED <<configStore, responses, cli, observed>>
  /\ UNCHANGED hashVars
  /\ UNCHANGED diffVars
  /\ UNCHANGED valVars
  /\ UNCHANGED shellVars

\* app.put('/v1/instances/:instanceId/config', ...) serving the request of c
HandlePut(c) ==
  /\ requests[c] # NoRequest
  /\ requests' = [requests EXCEPT ![c] = NoRequest]
  /\ LET request == requests[c]
         stored == configStore[request.instanceId]
     IN IF ~RequestShapeOk(request)
          THEN /\ responses' = [responses EXCEPT ![c] = BadRequest]
               /\ UNCHANGED configStore
          ELSE /\ configStore' =
                    [configStore EXCEPT ![request.instanceId] = NewStored(stored, request)]
               /\ responses' = [responses EXCEPT ![c] = PutResponse(stored, request)]
  /\ UNCHANGED <<cli, observed, now>>
  /\ UNCHANGED hashVars
  /\ UNCHANGED diffVars
  /\ UNCHANGED valVars
  /\ UNCHANGED shellVars

\* a client reads the status of an instance key: the handler runs to its end
GetStatus(instanceId) ==
  /\ now < MaxCommands
  /\ now' = now + 1
  /\ observed' = Observation(now', GetStatusReply(instanceId, configStore[instanceId]))
  /\ UNCHANGED <<configStore, requests, responses, cli>>
  /\ UNCHANGED hashVars
  /\ UNCHANGED diffVars
  /\ UNCHANGED valVars
  /\ UNCHANGED shellVars

\* a client reads the document of an instance key
GetConfig(instanceId) ==
  /\ now < MaxCommands
  /\ now' = now + 1
  /\ observed' = Observation(now', GetConfigReply(instanceId, configStore[instanceId]))
  /\ UNCHANGED <<configStore, requests, responses, cli>>
  /\ UNCHANGED hashVars
  /\ UNCHANGED diffVars
  /\ UNCHANGED valVars
  /\ UNCHANGED shellVars

\* applyCommand after its await: the reply read, success shown or, on a
\* reply that is not ok, the error caught and exit(1)
ApplyFinish(c) ==
  /\ cli[c].pc = "awaiting"
  /\ responses[c] # NoResponse
  /\ responses' = [responses EXCEPT ![c] = NoResponse]
  /\ cli' = [cli EXCEPT ![c] =
               IF responses[c].status = 200
                 THEN CliState("done", cli[c].config, cli[c].validationResults, 0)
                 ELSE CliState("exited", cli[c].config, cli[c].validationResults, 1)]
  /\ UNCHANGED <<configStore, requests, observed, now>>
  /\ UNCHANGED hashVars
  /\ UNCHANGED diffVars
  /\ UNCHANGED valVars
  /\ UNCHANGED shellVars

Next ==
  \/ \E c \in CliClients, config \in CliFiles, envInstanceId \in EnvInstanceIds :
       ApplyCommand(c, config, envInstanceId)
  \/ \E request \in ApiRequests(now + 1) : ApiPut(request)
  \/ \E c \in Clients : HandlePut(c)
  \/ \E c \in CliClients : ApplyFinish(c)
  \/ \E instanceId \in InstanceIds : GetStatus(instanceId)
  \/ \E instanceId \in InstanceIds : GetConfig(instanceId)

Spec == Init /\ [][Next]_vars

(***************************************************************************)
(* One shell running apply, import and status on its files, with           *)
(* CLERK_INSTANCE_ID set or not, while other clients PUT.  The files hold   *)
(* the JSON text of a document; reading one gives back its members in      *)
(* the order written.                                                      *)
(***************************************************************************)
InitCli ==
  /\ HashIdle
  /\ DiffIdle
  /\ ValIdle
  /\ InitSystem
  /\ env \in EnvInstanceIds
  /\ imported = Undefined
  /\ shell = NoShell

\* existsSync(fullPath) and the document parseJSONC reads there; imported is
\* the parsed content of the file at ImportPath
FileExists(configPath) ==
  configPath \in ShellPaths \/ (configPath = ImportPath /\ imported # Undefined)

ReadFile(configPath) == IF configPath = ImportPath THEN imported ELSE ShellFile(configPath)

\* importCommand up to the end of its await: the server answers
\* GET /v1/instances/:instanceId/config
ImportFetch ==
  /\ now < MaxCommands
  /\ shell.pc # "fetched"
  /\ now' = now + 1
  /\ LET instanceId == EnvInstanceId(env)
     IN shell' = ShellState("fetched", "import", ImportPath,
                            Observation(now', GetConfigReply(instanceId, configStore[instanceId])),
                            Undefined, "unknown", -1)
  /\ UNCHANGED <<configStore, requests, responses, cli, observed>>
  /\ UNCHANGED <<env, imported>>
  /\ UNCHANGED hashVars
  /\ UNCHANGED diffVars
  /\ UNCHANGED valVars

\* importCommand after its await: a reply that is not ok is thrown, caught
\* and ends in exit(1); else the hash is taken and the file written
ImportFinish ==
  /\ shell.pc = "fetched"
  /\ shell.command = "import"
  /\ LET reply == shell.reply.reply
         written == configWithMetadata(reply.config, generateConfigHash(reply.config),
                                       EnvInstanceId(env), ToString(now))
     IN IF reply.status # 200
          THEN /\ shell' = ShellState("exited", "import", ImportPath, shell.reply,
                                      Undefined, "unknown", 1)
               /\ UNCHANGED imported
          ELSE /\ shell' = ShellState("done", "import", ImportPath, shell.reply,
                                      written, "unknown", 0)
               /\ imported' = WrittenThenParsed(written)
  /\ UNCHANGED env
  /\ UNCHANGED sysVars
  /\ UNCHANGED hashVars
  /\ UNCHANGED diffVars
  /\ UNCHANGED valVars

\* statusCommand up to the end of its await: the server answers
\* GET /v1/instances/:instanceId/config/status
StatusFetch(configPath) ==
  /\ now < MaxCommands
  /\ shell.pc # "fetched"
  /\ now' = now + 1
  /\ LET instanceId == EnvInstanceId(env)
     IN shell' = ShellState("fetched", "status", configPath,
                            Observation(now', GetStatusReply(instanceId, configStore[instanceId])),
                            Undefined, "unknown", -1)
  /\ UNCHANGED <<configStore, requests, responses, cli, observed>>
  /\ UNCHANGED <<env, imported>>
  /\ UNCHANGED hashVars
  /\ UNCHANGED diffVars
  /\ UNCHANGED valVars

\* statusCommand after its await: exit(1) on a reply that is not ok or a
\* file that is not there; with a file, its hash against the remote hash
StatusFinish ==
  /\ shell.pc = "fetched"
  /\ shell.command = "status"
  /\ LET reply == shell.reply.reply
         configPath == shell.configPath
         localConfig == ReadFile(configPath)
     IN shell' =
          IF reply.status # 200 \/ (configPath # "" /\ ~FileExists(configPath))
            THEN ShellState("exited", "status", configPath, shell.reply, Undefined,
                            "unknown", 1)
          ELSE IF configPath = ""
            THEN ShellState("done", "status", configPath, shell.reply, Undefined,
                            "unknown", 0)
          ELSE ShellState("done", "status", configPath, shell.reply, localConfig,
                          IF compareHashes(generateConfigHash(localConfig), reply.configHash)
                            THEN "in sync" ELSE "drifted",
                          0)
  /\ UNCHANGED <<env, imported>>
  /\ UNCHANGED sysVars
  /\ UNCHANGED hashVars
  /\ UNCHANGED diffVars
  /\ UNCHANGED valVars

NextCli ==
  \/ \E configPath \in ShellPaths \cup {ImportPath} :
       FileExists(configPath) /\ ApplyCommand(ShellClient, ReadFile(configPath), env)
  \/ \E request \in ApiRequests(now + 1) : ApiPut(request)
  \/ \E c \in Clients : HandlePut(c)
  \/ ApplyFinish(ShellClient)
  \/ ImportFetch
  \/ ImportFinish
  \/ \E configPath \in ShellPaths \cup {ImportPath, ""} : StatusFetch(configPath)
  \/ StatusFinish

SpecCli == InitCli /\ [][NextCli]_vars

(***************************************************************************)
(* Relations between documents used to state the properties.               *)
(***************************************************************************)
\* the members of a document other than the top-level _metadata, in order
ContentMembers(config) == SelectSeq(config.kv, LAMBDA m : m.k # "_metadata")

KeySet(o) == {o.kv[i].k : i \in 1..Len(o.kv)}

\* structural equality that ignores the order of the keys of every mapping
RECURSIVE DeepEqual(_, _)
DeepEqual(a, b) ==
  /\ a.t = b.t
  /\ a.s = b.s
  /\ Len(a.kv) = Len(b.kv)
  /\ IF a.t = "obj"
       THEN /\ KeySet(a) = KeySet(b)
            /\ \A k \in KeySet(a) : DeepEqual(Get(a, k), Get(b, k))
       ELSE \A i \in 1..Len(a.kv) : DeepEqual(a.kv[i].v, b.kv[i].v)

\* the same configuration content: equal up to key order, metadata aside
SameContent(a, b) == DeepEqual(Obj(ContentMembers(a)), Obj(ContentMembers(b)))

\* b is a with only the top-level _metadata added, removed or altered
OnlyMetadataDiffers(a, b) == ContentMembers(a) = ContentMembers(b)

\* the same top-level key/value pairs, listed in any order
SameTopLevelPairs(a, b) == Range(a.kv) = Range(b.kv)

\* the same top-level keys in the same order, every value equal up to the
\* order of the keys of the mappings in it, and not the very same document
DiffersOnlyInNestedKeyOrder(a, b) ==
  /\ ObjectKeys(a) = ObjectKeys(b)
  /\ \A i \in 1..Len(a.kv) : DeepEqual(a.kv[i].v, b.kv[i].v)
  /\ a # b

(***************************************************************************)
(* Properties of the hasher (specification SpecHash).                      *)
(***************************************************************************)
\* C1: two documents whose non-metadata content differs (a value nested
\* below the top level included) have different hashes.
C1_ContentDifferenceChangesHash ==
  (Hashed /\ ~SameContent(configA, configB)) => hashA # hashB

\* C2: a document and the same document with only its top-level _metadata
\* added, removed or altered have the same hash.
C2_MetadataExcluded ==
  (Hashed /\ OnlyMetadataDiffers(configA, configB)) => hashA = hashB

C2_Witness ==
  /\ Hashed
  /\ OnlyMetadataDiffers(configA, configB)
  /\ HasKey(configA, "_metadata")
  /\ HasKey(configB, "_metadata")
  /\ Get(configA, "_metadata") # Get(configB, "_metadata")
  /\ Len(ContentMembers(configA)) > 0

\* C3: two documents holding the same top-level key/value pairs, listed in
\* any order, have the same hash.
C3_TopLevelOrderIrrelevant ==
  (Hashed /\ SameTopLevelPairs(configA, configB)) => hashA = hashB

C3_Witness ==
  /\ Hashed
  /\ SameTopLevelPairs(configA, configB)
  /\ ObjectKeys(configA) # ObjectKeys(configB)
  /\ ~HasKey(configA, "_metadata")

NoRepeats(seq) == \A i, j \in 1..Len(seq) : seq[i] = seq[j] => i = j

\* the leaves (scalars and lists) of a document tree outside _metadata
RECURSIVE LeafCount(_, _)
LeafCount(obj, i) ==
  IF i > Len(obj.kv) THEN 0
  ELSE LeafCount(obj, i + 1)
         + (IF obj.kv[i].k = "_metadata" THEN 0
            ELSE IF obj.kv[i].v.t = "obj" THEN LeafCount(obj.kv[i].v, 1)
            ELSE 1)

\* C5: with a previous document, a path only in the new map is added, a
\* path only in the old map is removed, a path in both with different leaf
\* values is modified, and a path in both with equal leaf values is in none
\* of the three lists.
C5_DiffComplete ==
  (Diffed /\ oldConfig # Undefined) =>
    \A path \in Range(MapKeys(oldPaths)) \cup Range(MapKeys(newPaths)) :
      LET inOld == MapHas(oldPaths, path)
          inNew == MapHas(newPaths, path)
          A == path \in Range(changes.added)
          M == path \in Range(changes.modified)
          R == path \in Range(changes.removed)
      IN /\ (inNew /\ ~inOld) => A
         /\ (inOld /\ ~inNew) => R
         /\ (inOld /\ inNew /\ MapGet(oldPaths, path) # MapGet(newPaths, path)) => M
         /\ (inOld /\ inNew /\ MapGet(oldPaths, path) = MapGet(newPaths, path))
              => (~A /\ ~M /\ ~R)

C5_Witness ==
  /\ Diffed
  /\ oldConfig # Undefined
  /\ changes.added # <<>>
  /\ changes.modified # <<>>
  /\ changes.removed # <<>>

\* C6: in every change summary, the sentinel included, the three lists are
\* pairwise disjoint, none repeats a path, and total is the sum of their
\* lengths.
C6_SummaryWellFormed ==
  Diffed =>
    /\ Range(changes.added) \cap Range(changes.modified) = {}
    /\ Range(changes.added) \cap Range(changes.removed) = {}
    /\ Range(changes.modified) \cap Range(changes.removed) = {}
    /\ NoRepeats(changes.added)
    /\ NoRepeats(changes.modified)
    /\ NoRepeats(changes.removed)
    /\ changes.total
         = Len(changes.added) + Len(changes.modified) + Len(changes.removed)

C6_Witness ==
  /\ Diffed
  /\ oldConfig # Undefined
  /\ HasKey(oldConfig, "_metadata")
  /\ Len(changes.modified) = 2
  /\ changes.total = 3

\* C8: the flattened map has exactly one entry per leaf of the document:
\* no two leaves share a path string, whatever the key names.
C8_OneEntryPerLeaf ==
  (Diffed /\ oldConfig # Undefined) =>
    /\ Len(newPaths) = LeafCount(newConfig, 1)
    /\ Len(oldPaths) = LeafCount(oldConfig, 1)

(***************************************************************************)
(* Properties of the store and the CLI apply (specification Spec).         *)
(***************************************************************************)
\* the step is the server answering the PUT of client c
PutServed(c) == requests[c] # NoRequest /\ requests'[c] = NoRequest

\* the step is client c running applyCommand up to its await
ApplyRun(c) == cli[c].pc # "awaiting" /\ cli'[c] # cli[c]

ErrorLevelFinding(results) == \E i \in 1..Len(results) : results[i].level = "error"

\* C7: a PUT to an instance key that holds no document answers with the
\* change summary added = ['*'], modified = [], removed = [], total = 1.
C7_FirstPutSentinel ==
  [][\A c \in Clients :
       (/\ PutServed(c)
        /\ RequestShapeOk(requests[c])
        /\ configStore[requests[c].instanceId] = NotStored)
         => /\ responses'[c].status = 200
            /\ responses'[c].changesSummary
                 = [added |-> <<"*">>, modified |-> <<>>, removed |-> <<>>, total |-> 1]]_vars

C7_Witness ==
  \E c \in Clients :
    /\ responses[c].status = 200
    /\ responses[c].changesSummary.added = <<"*">>
    /\ Len(configStore["ins_prod"].history) = 1
    /\ Len(getConfigPaths(configStore["ins_prod"].config)) > 1

C10_OnlyErrorsBlock ==
  /\ [][\A c \in CliClients :
          (ApplyRun(c) /\ ~ErrorLevelFinding(cli'[c].validationResults))
            => /\ cli'[c].pc = "awaiting"
               /\ requests'[c].config = cli'[c].config
               /\ requests'[c].metadata # NoMetadata
               /\ requests'[c].instanceId \in InstanceIds]_vars
  /\ [][\A c \in CliClients :
          PutServed(c)
            => /\ configStore'[requests[c].instanceId].config = requests[c].config
               /\ responses'[c].status = 200]_vars
  /\ [](\A c \in CliClients :
          cli[c].pc = "exited" => ErrorLevelFinding(cli[c].validationResults))

C10_Witness ==
  \E c \in CliClients :
    /\ cli[c].pc = "done"
    /\ cli[c].exitCode = 0
    /\ \E i \in 1..Len(cli[c].validationResults) :
         cli[c].validationResults[i].level = "warning"
    /\ configStore["ins_default"].config = cli[c].config

\* C17: a path in both flattened documents is in modified exactly when its
\* two leaf values are not deep-equal, key order of mappings aside: a list
\* of mappings with the same keys and values in another key order is not
\* reported.
C17_ModifiedIffNotDeepEqual ==
  (Diffed /\ oldConfig # Undefined) =>
    \A path \in Range(MapKeys(oldPaths)) \cap Range(MapKeys(newPaths)) :
      (path \in Range(changes.modified))
        <=> ~DeepEqual(MapGet(oldPaths, path), MapGet(newPaths, path))

\* C20: with a previous document, the two documents have the same hash
\* exactly when the change summary between them has total 0.
C20_HashEqualIffNoChanges ==
  (Diffed /\ oldConfig # Undefined) =>
    ((generateConfigHash(oldConfig) = generateConfigHash(newConfig))
       <=> changes.total = 0)

(***************************************************************************)
(* Properties of the store's revisions and history (specification Spec).   *)
(***************************************************************************)
\* the step is the server accepting the PUT of client c
PutAccepted(c) == PutServed(c) /\ responses'[c].status = 200

\* the step is the server answering a GET
ReadServed == observed'.at # observed.at

\* C13: the history of every instance key only grows: a successful put
\* appends exactly one entry and keeps the entries before it, and no other
\* step (a rejected put, a GET, a CLI step) changes it.
C13_HistoryAppendOnly ==
  [][\A id \in InstanceIds :
       LET before == configStore[id].history
           after == configStore'[id].history
       IN IF \E c \in Clients : PutAccepted(c) /\ requests[c].instanceId = id
            THEN /\ Len(after) = Len(before) + 1
                 /\ SubSeq(after, 1, Len(before)) = before
            ELSE after = before]_vars

C13_Witness ==
  \E id \in InstanceIds :
    /\ Len(configStore[id].history) = 2
    /\ configStore[id].history[1].appliedAt # configStore[id].history[2].appliedAt

\* the current fields of the entry are those of the last entry of its history
MirrorsLastEntry(stored) ==
  LET last == stored.history[Len(stored.history)]
  IN /\ stored.configHash = last.configHash
     /\ stored.lastModified = last.appliedAt
     /\ stored.lastModifiedBy = last.appliedBy
     /\ stored.lastModifiedSource = last.source

\* C14 as stated: for every instance key the store holds, the current hash,
\* timestamp, actor and source are those of the last entry of its history.
C14_CurrentMirrorsLastEntry ==
  \A id \in InstanceIds :
    configStore[id] # NotStored
      => /\ Len(configStore[id].history) > 0
         /\ MirrorsLastEntry(configStore[id])

\* C14 amended: for every instance key whose history is not empty, the
\* current hash, timestamp, actor and source are those of the last entry of
\* the history; a key with an empty history is ins_default as the server
\* seeded it (actor 'system', source 'api').
C14_CurrentMirrorsLastEntryOnceApplied ==
  \A id \in InstanceIds :
    configStore[id] # NotStored
      => IF Len(configStore[id].history) > 0
           THEN MirrorsLastEntry(configStore[id])
           ELSE /\ id = "ins_default"
                /\ configStore[id].lastModifiedBy = "system"
                /\ configStore[id].lastModifiedSource = "api"
                /\ configStore[id].lastModified = 0

C14_Witness ==
  \E id \in InstanceIds :
    /\ Len(configStore[id].history) = 2
    /\ configStore[id].history[1].appliedBy # configStore[id].history[2].appliedBy
    /\ configStore[id].lastModifiedBy = configStore[id].history[2].appliedBy

\* C15: a PUT whose body lacks the document or the metadata is answered 400
\* with no document, no findings and no change summary, and the store is as
\* it was.
C15_ShapeErrorRejected ==
  [][\A c \in Clients :
       (/\ PutServed(c)
        /\ (requests[c].config = Undefined \/ requests[c].metadata = NoMetadata))
         => /\ configStore' = configStore
            /\ responses'[c].status = 400
            /\ responses'[c].config = Undefined
            /\ responses'[c].validationResults = <<>>
            /\ responses'[c].changesSummary.total = -1
            /\ responses'[c].changesSummary.added = <<>>]_vars

C15_Witness ==
  /\ responses[ApiClient].status = 400
  /\ requests[ApiClient] = NoRequest
  /\ configStore["ins_prod"] = NotStored
  /\ configStore["ins_default"].history = <<>>

\* the PUT requests a client can have sent at time t to this instance key
PossibleRequests(id, t) ==
  {r \in {ApplyRequest(config, envInstanceId, t) :
            config \in CliFiles, envInstanceId \in EnvInstanceIds}
          \cup ApiRequests(t) : r.instanceId = id}

\* the entry of the key is the seeded one, or is in every field what one PUT
\* request carried, with that request's entry last in the history
WholeRevision(id) ==
  LET stored == configStore[id]
  IN IF stored.history = <<>>
       THEN /\ id = "ins_default"
            /\ stored.config = defaultConfig
            /\ stored.lastModifiedBy = "system"
       ELSE \E r \in PossibleRequests(id, stored.lastModified) :
              /\ stored.instanceId = id
              /\ stored.config = r.config
              /\ stored.configHash = r.metadata.configHash
              /\ stored.lastModifiedBy = r.metadata.appliedBy
              /\ stored.lastModifiedSource = r.metadata.source
              /\ stored.history[Len(stored.history)]
                   = [configHash |-> r.metadata.configHash,
                      appliedAt |-> r.metadata.appliedAt,
                      appliedBy |-> r.metadata.appliedBy,
                      source |-> r.metadata.source]

\* the entries of all histories, by key and position
HistoryPositions ==
  {<<id, i>> : id \in InstanceIds, i \in 1..MaxCommands + 1}
    \cap {p \in InstanceIds \X (1..MaxCommands + 1) : p[2] <= Len(configStore[p[1]].history)}

\* the entry at the position is one a put of CLI client c wrote
EntryOf(c, p) ==
  LET entry == configStore[p[1]].history[p[2]]
  IN entry.source = "cli" /\ entry.configHash = generateConfigHash(cli[c].config)

\* C16: puts on an instance key are atomic and serialized. An accepted put
\* replaces the whole entry of its key in one step, by the request's document,
\* hash, time, actor and source and the history with the request's entry
\* appended, and touches no other key; every entry of the store is the seeded
\* one or the whole revision of one put; a GET answers with the fields of the
\* entry as it is then; once the puts of two CLI clients are complete, the
\* histories hold an entry of each.
C16_PutsAtomicAndSerialized ==
  /\ [](\A id \in InstanceIds : configStore[id] # NotStored => WholeRevision(id))
  /\ [](\A c1, c2 \in CliClients :
          (c1 # c2 /\ cli[c1].pc = "done" /\ cli[c2].pc = "done")
            => \E p1, p2 \in HistoryPositions :
                 p1 # p2 /\ EntryOf(c1, p1) /\ EntryOf(c2, p2))
  /\ [][\A c \in Clients :
          PutAccepted(c)
            => LET r == requests[c]
               IN /\ configStore'[r.instanceId]
                       = [instanceId |-> r.instanceId, config |-> r.config,
                          configHash |-> r.metadata.configHash,
                          lastModified |-> r.metadata.appliedAt,
                          lastModifiedBy |-> r.metadata.appliedBy,
                          lastModifiedSource |-> r.metadata.source,
                          history |-> Append(configStore[r.instanceId].history,
                                             [configHash |-> r.metadata.configHash,
                                              appliedAt |-> r.metadata.appliedAt,
                                              appliedBy |-> r.metadata.appliedBy,
                                              source |-> r.metadata.source])]
                  /\ \A id \in InstanceIds \ {r.instanceId} :
                       configStore'[id] = configStore[id]]_vars
  /\ [][ReadServed
          => LET stored == configStore[observed'.reply.instanceId]
             IN /\ configStore' = configStore
                /\ observed'.reply.kind \in {"status", "config"}
                /\ IF stored = NotStored
                     THEN observed'.reply.status = 404 /\ observed'.reply.config = Undefined
                     ELSE /\ observed'.reply.status = 200
                          /\ observed'.reply.config = stored.config
                          /\ observed'.reply.kind = "status"
                               => /\ observed'.reply.configHash = stored.configHash
                                  /\ observed'.reply.lastModified = stored.lastModified
                                  /\ observed'.reply.lastModifiedBy = stored.lastModifiedBy
                                  /\ observed'.reply.lastModifiedSource
                                       = stored.lastModifiedSource]_vars

C16_Witness ==
  /\ cli["cli1"].pc = "done"
  /\ cli["cli2"].pc = "done"
  /\ cli["cli1"].config # cli["cli2"].config
  /\ Len(configStore["ins_default"].history) = 2
  /\ configStore["ins_default"].config = cli["cli2"].config
  /\ configStore["ins_default"].history[1].configHash
       = generateConfigHash(cli["cli1"].config)
  /\ configStore["ins_default"].history[1].appliedAt
       > configStore["ins_default"].history[2].appliedAt

\* C19: for every instance key the store holds, the stored hash is the hash
\* of the stored document.
C19_StoredHashIsHashOfDocument ==
  \A id \in InstanceIds :
    configStore[id] # NotStored
      => configStore[id].configHash = generateConfigHash(configStore[id].config)

(***************************************************************************)
(* Properties of import, status and apply run from one shell               *)
(* (specification SpecCli).                                                *)
(***************************************************************************)
\* the step is statusCommand comparing the hash of its file with the reply
StatusCompared ==
  /\ shell.pc = "fetched"
  /\ shell.command = "status"
  /\ shell'.pc = "done"
  /\ shell.configPath # ""

\* the reply status holds is what the store answers now for the same key
ReplyIsCurrent ==
  LET reply == shell.reply.reply
  IN /\ reply.status = 200
     /\ reply = GetStatusReply(reply.instanceId, configStore[reply.instanceId])

\* the instance key the imported file names
ImportedFrom == Get(Get(imported, "_metadata"), "instanceId").s

\* the file at ImportPath is what import writes from the document the store
\* holds now for that key: no put has replaced the document since
ImportedIsCurrent ==
  /\ imported # Undefined
  /\ ImportedFrom \in InstanceIds
  /\ configStore[ImportedFrom] # NotStored
  /\ \E t \in 0..MaxCommands + 1 :
       imported = WrittenThenParsed(
                    configWithMetadata(configStore[ImportedFrom].config,
                                       generateConfigHash(configStore[ImportedFrom].config),
                                       ImportedFrom, ToString(t)))

\* C21: status run on the file import wrote, the stored document not
\* replaced since, reports in sync, and the configHash in the file's
\* metadata is the hash of the file's own content, whether or not the stored
\* document has a $schema.
C21_ImportStatusRoundTrip ==
  /\ [](imported # Undefined
          => Get(Get(imported, "_metadata"), "configHash")
               = Str(generateConfigHash(imported)))
  /\ [][(/\ StatusCompared
         /\ shell.configPath = ImportPath
         /\ ImportedIsCurrent
         /\ ReplyIsCurrent
         /\ shell.reply.reply.instanceId = ImportedFrom)
          => shell'.inSync = "in sync"]_vars

\* the document of the status file is what the last apply of the shell sent,
\* that apply succeeded, and the revision it wrote is still the current one
\* of its key
ApplyOfFileStands ==
  LET D == ReadFile(shell.configPath)
  IN /\ FileExists(shell.configPath)
     /\ cli[ShellClient].pc = "done"
     /\ cli[ShellClient].config = D
     /\ \E k \in InstanceIds :
          /\ configStore[k] # NotStored
          /\ configStore[k].config = D
          /\ configStore[k].lastModifiedSource = "cli"
          /\ configStore[k].configHash = generateConfigHash(D)

\* C22: status run on the document a CLI apply has just applied, no put in
\* between, reports in sync, whatever the document's _metadata.instanceId and
\* CLERK_INSTANCE_ID are.
C22_ApplyStatusRoundTrip ==
  [][(StatusCompared /\ ApplyOfFileStands /\ ReplyIsCurrent)
       => shell'.inSync = "in sync"]_vars

\* C23: every finding in the reply to an accepted PUT is a finding of
\* validateConfig on the same document, with the same path and level.
C23_PutFindingsAgreeWithValidator ==
  [][\A c \in Clients :
       PutAccepted(c)
         => LET served == responses'[c].validationResults
                engine == validateConfig(requests[c].config)
            IN \A i \in 1..Len(served) :
                 \E j \in 1..Len(engine) :
                   /\ engine[j].path = served[i].path
                   /\ engine[j].level = served[i].level]_vars

(***************************************************************************)
(* Properties of the validator (specification SpecValidate).               *)
(***************************************************************************)
\* how many findings name this path at this level
CountFindings(results, path, level) ==
  Cardinality({i \in 1..Len(results) : results[i].path = path /\ results[i].level = level})

\* the path of the role at index i, counted from 0
RolePath(i) == "organizations.roles[" \o ToString(i) \o "]"

IsRolePath(path) == Len(path) >= 20 /\ SubSeq(path, 1, 20) = "organizations.roles["

\* the role has no such member, or an empty one
LacksNonEmpty(role, field) == ~HasKey(role, field) \/ Get(role, field) = Str("")

EmptyPermissions(role) == HasKey(role, "permissions") /\ Get(role, "permissions") = Arr(<<>>)

ValRoles == Get(Get(valConfig, "organizations"), "roles")

NumRoles == IF ValRoles.t = "arr" THEN Len(ValRoles.kv) ELSE 0

OrgsEnabled == Get(Get(valConfig, "organizations"), "enabled") = Bool(TRUE)

\* the findings about the role at position i (from 1) are as the role shape
\* rule says
RoleShapeRule(i) ==
  LET role == ValRoles.kv[i].v
  IN /\ CountFindings(valResults, RolePath(i - 1), "error")
          = (IF LacksNonEmpty(role, "key") \/ LacksNonEmpty(role, "name") THEN 1 ELSE 0)
     /\ EmptyPermissions(role)
          => /\ CountFindings(valResults, RolePath(i - 1) \o ".permissions", "warning") = 1
             /\ CountFindings(valResults, RolePath(i - 1) \o ".permissions", "error") = 0

\* C11 as stated: in every document, each role of organizations.roles that
\* lacks a non-empty key or name gets exactly one error finding at
\* organizations.roles[i], any other role none, and an empty permissions list
\* gets a warning and no error.
C11_RoleShapeEveryDocument ==
  Validated => \A i \in 1..NumRoles : RoleShapeRule(i)

\* C11 amended: the role shape rule holds of every document whose
\* organizations.enabled is true; a document whose organizations is not
\* enabled gets no finding about any role.
C11_RoleShapeWhenEnabled ==
  Validated =>
    /\ OrgsEnabled => \A i \in 1..NumRoles : RoleShapeRule(i)
    /\ ~OrgsEnabled => \A j \in 1..Len(valResults) : ~IsRolePath(valResults[j].path)

C11_Witness ==
  /\ Validated
  /\ OrgsEnabled
  /\ NumRoles = 2
  /\ ~HasKey(ValRoles.kv[1].v, "key") /\ ~HasKey(ValRoles.kv[1].v, "name")
  /\ ~LacksNonEmpty(ValRoles.kv[2].v, "key") /\ EmptyPermissions(ValRoles.kv[2].v)
  /\ CountFindings(valResults, "organizations.roles[0]", "error") = 1
  /\ CountFindings(valResults, "organizations.roles[1].permissions", "warning") = 1
  /\ Len(valResults) = 2

\* how many findings name this path, at any level
CountAtPath(results, path) ==
  Cardinality({i \in 1..Len(results) : results[i].path = path})

BeginsWithSlash(url) == Len(url) >= 1 /\ SubSeq(url, 1, 1) = "/"

\* C12: each of the five redirect fields that is present gets exactly one
\* error finding at redirects.<field> if its value neither begins with '/'
\* nor parses as an absolute URL, and otherwise no error; a value that begins
\* with '/' gets no finding at all.
C12_RedirectUrlRule ==
  Validated =>
    \A i \in 1..Len(urlFields) :
      LET redirects == Get(valConfig, "redirects")
          path == "redirects." \o urlFields[i]
          url == Get(redirects, urlFields[i]).s
      IN HasKey(redirects, urlFields[i]) =>
           /\ CountFindings(valResults, path, "error")
                = (IF ~BeginsWithSlash(url) /\ url \notin ParseableUrls THEN 1 ELSE 0)
           /\ BeginsWithSlash(url) => CountAtPath(valResults, path) = 0

\* C18: with organizations enabled, more than 5 roles give one warning at
\* organizations.roles, more than 10 give one info finding there as well, 5 or
\* fewer give neither; no number of roles gives an error there; with
\* organizations not enabled there is no finding at organizations.roles.
C18_RoleCountRule ==
  Validated =>
    /\ CountFindings(valResults, "organizations.roles", "warning")
         = (IF OrgsEnabled /\ NumRoles > 5 THEN 1 ELSE 0)
    /\ CountFindings(valResults, "organizations.roles", "info")
         = (IF OrgsEnabled /\ NumRoles > 10 THEN 1 ELSE 0)
    /\ CountFindings(valResults, "organizations.roles", "error") = 0
    /\ ~OrgsEnabled => CountAtPath(valResults, "organizations.roles") = 0

C18_Witness ==
  /\ Validated
  /\ OrgsEnabled
  /\ NumRoles > 10
  /\ CountFindings(valResults, "organizations.roles", "warning") = 1
  /\ CountFindings(valResults, "organizations.roles", "info") = 1
  /\ ~ErrorLevelFinding(valResults)

=============================================================================
